---------------------------- MODULE Spec2Model ----------------------------
(***************************************************************************)
(* A model of zpath: the geohash codec (geohash.rs), and the waypoint      *)
(* dataset with its trie index, nearest-neighbour searches, connection     *)
(* assignment and A* route search (lib.rs).                                *)
(*                                                                         *)
(* Numbers.  A coordinate is an integer number of 2^-19 degrees, so that   *)
(* every midpoint encode() computes for an 8 character geohash is an       *)
(* integer.  A distance is an integer number of metres.  A character is a  *)
(* one-character string; a String is a sequence of characters.             *)
(***************************************************************************)
EXTENDS Integers, Sequences, FiniteSets, TLC

VARIABLES
    waypoints,      \* Dataset.waypoints : Vec<Waypoint>
    geohash_index,  \* Dataset.geohash_index : Trie
    hung,           \* TRUE once a call has entered a loop it never leaves
    query,          \* the most recent nearest-neighbour query and what it returned
    label_call,     \* the most recent generate_label call and what it returned
    route,          \* the state of the get_shortest_route call in progress
    call,           \* the most recent call that changes the dataset, what it was
                    \* given, the dataset it found and what it returned
    codec_call      \* the most recent call of a geohash.rs function and its result

vars == <<waypoints, geohash_index, hung, query, label_call, route, call, codec_call>>

\* Option<T>: None, or Some(x)
None == <<>>

Some(x) == <<x>>

Unwrap(o) == o[1]

(***************************************************************************)
(* Helpers on sequences and sets.                                          *)
(***************************************************************************)
Range(s) == {s[i] : i \in 1..Len(s)}

Reverse(s) == [i \in 1..Len(s) |-> s[Len(s) + 1 - i]]

Front(s) == SubSeq(s, 1, Len(s) - 1)

Last(s) == s[Len(s)]

IsPrefix(p, s) == Len(p) <= Len(s) /\ SubSeq(s, 1, Len(p)) = p

Truncate(s, k) == IF Len(s) > k THEN SubSeq(s, 1, k) ELSE s

RECURSIVE Concat(_)
Concat(ss) == IF ss = <<>> THEN <<>> ELSE Head(ss) \o Concat(Tail(ss))

Min(a, b) == IF a <= b THEN a ELSE b

(***************************************************************************)
(* geohash.rs                                                              *)
(***************************************************************************)
Degree == 2 ^ 19

Directions == {"North", "East", "South", "West"}

BASE_32GHS ==
    << "0", "1", "2", "3", "4", "5", "6", "7", "8", "9", "b", "c", "d", "e", "f", "g",
       "h", "j", "k", "m", "n", "p", "q", "r", "s", "t", "u", "v", "w", "x", "y", "z" >>

BORDERS_A == << "p", "r", "x", "z" >>
BORDERS_B == << "b", "c", "f", "g", "u", "v", "y", "z" >>
BORDERS_C == << "0", "2", "8", "b" >>
BORDERS_D == << "0", "1", "4", "5", "h", "j", "n", "p" >>

NEIGHBORS_A ==
    << "p", "0", "r", "2", "1", "4", "3", "6", "x", "8", "z", "b", "9", "d", "c", "f",
       "5", "h", "7", "k", "j", "n", "m", "q", "e", "s", "g", "u", "t", "w", "v", "y" >>
NEIGHBORS_B ==
    << "b", "c", "0", "1", "f", "g", "4", "5", "2", "3", "8", "9", "6", "7", "d", "e",
       "u", "v", "h", "j", "y", "z", "n", "p", "k", "m", "s", "t", "q", "r", "w", "x" >>
NEIGHBORS_C ==
    << "1", "4", "3", "6", "5", "h", "7", "k", "9", "d", "c", "f", "e", "s", "g", "u",
       "j", "n", "m", "q", "p", "0", "r", "2", "t", "w", "v", "y", "x", "8", "z", "b" >>
NEIGHBORS_D ==
    << "2", "3", "8", "9", "6", "7", "d", "e", "b", "c", "0", "1", "f", "g", "4", "5",
       "k", "m", "s", "t", "q", "r", "w", "x", "u", "v", "h", "j", "y", "z", "n", "p" >>

\* iter().position(|&c| c == x): the 0-based position of x in table t
Position(t, x) == (CHOOSE i \in 1..Len(t) : t[i] = x) - 1

\* The spacing of the f32 values around a, in units of 2^-19 degree, for the
\* 24-bit significand of f32: 1 below 2^24 units (32 degrees), doubling with
\* every doubling of a. Every bound and midpoint of encode is a whole number
\* of units.
RECURSIVE Ulp(_, _)
Ulp(a, q) == IF a < (2 ^ 24) * q THEN q ELSE Ulp(a, 2 * q)

\* The f32 nearest to x, ties to the even significand: the result of an f32
\* addition whose exact sum is x.
F32(x) ==
    LET q == Ulp(IF x < 0 THEN -x ELSE x, 1)
        r == x % q
        down == x - r
    IN  IF 2 * r < q THEN down
        ELSE IF 2 * r > q THEN down + q
        ELSE IF (down \div q) % 2 = 0 THEN down ELSE down + q

\* (min + max) / 2.0 in f32: the sum is rounded, the halving is exact
Midpoint(min, max) == F32(min + max) \div 2

\* a pass that takes a coordinate equal to the midpoint for the upper half
EncodeStep_at_least(s, lat, lon) ==
    LET midpoint == IF s.longitude_bit THEN Midpoint(s.lon_min, s.lon_max)
                                       ELSE Midpoint(s.lat_min, s.lat_max)
        one == IF s.longitude_bit THEN lon >= midpoint ELSE lat >= midpoint
        bits == IF one THEN s.bits + 2 ^ (4 - s.bit) ELSE s.bits
    IN  [ geohash |-> IF s.bit = 4 THEN Append(s.geohash, BASE_32GHS[bits + 1])
                                   ELSE s.geohash,
          lat_min |-> IF ~s.longitude_bit /\ one THEN midpoint ELSE s.lat_min,
          lat_max |-> IF ~s.longitude_bit /\ ~one THEN midpoint ELSE s.lat_max,
          lon_min |-> IF s.longitude_bit /\ one THEN midpoint ELSE s.lon_min,
          lon_max |-> IF s.longitude_bit /\ ~one THEN midpoint ELSE s.lon_max,
          bits |-> IF s.bit = 4 THEN 0 ELSE bits,
          bit |-> IF s.bit = 4 THEN 0 ELSE s.bit + 1,
          longitude_bit |-> ~s.longitude_bit ]

\* One pass of encode's while loop; s is the record of its local variables.
EncodeStep(s, lat, lon) ==
    LET midpoint == IF s.longitude_bit THEN Midpoint(s.lon_min, s.lon_max)
                                       ELSE Midpoint(s.lat_min, s.lat_max)
        one == IF s.longitude_bit THEN lon > midpoint ELSE lat > midpoint
        bits == IF one THEN s.bits + 2 ^ (4 - s.bit) ELSE s.bits
    IN  [ geohash |-> IF s.bit = 4 THEN Append(s.geohash, BASE_32GHS[bits + 1])
                                   ELSE s.geohash,
          lat_min |-> IF ~s.longitude_bit /\ one THEN midpoint ELSE s.lat_min,
          lat_max |-> IF ~s.longitude_bit /\ ~one THEN midpoint ELSE s.lat_max,
          lon_min |-> IF s.longitude_bit /\ one THEN midpoint ELSE s.lon_min,
          lon_max |-> IF s.longitude_bit /\ ~one THEN midpoint ELSE s.lon_max,
          bits |-> IF s.bit = 4 THEN 0 ELSE bits,
          bit |-> IF s.bit = 4 THEN 0 ELSE s.bit + 1,
          longitude_bit |-> ~s.longitude_bit ]

RECURSIVE EncodeLoop(_, _, _, _)
EncodeLoop(s, lat, lon, precision) ==
    IF Len(s.geohash) < precision
    THEN EncodeLoop(EncodeStep(s, lat, lon), lat, lon, precision)
    ELSE s

EncodeStart ==
    [ geohash |-> <<>>,
      lat_min |-> -90 * Degree, lat_max |-> 90 * Degree,
      lon_min |-> -180 * Degree, lon_max |-> 180 * Degree,
      bits |-> 0, bit |-> 0, longitude_bit |-> TRUE ]

\* encode taking the first bit from the latitude
encode_latitude_first(lat, lon, precision) ==
    EncodeLoop([EncodeStart EXCEPT !.longitude_bit = FALSE], lat, lon, precision).geohash

encode(lat, lon, precision) == EncodeLoop(EncodeStart, lat, lon, precision).geohash

\* the tables of North in every direction
AdjacentTables_north(geohash, direction) ==
    IF Len(geohash) % 2 = 0 THEN <<NEIGHBORS_A, BORDERS_A>> ELSE <<NEIGHBORS_B, BORDERS_B>>

\* The (neighbor, border) pair get_adjacent_cell selects.
AdjacentTables(geohash, direction) ==
    IF Len(geohash) % 2 = 0
    THEN CASE direction = "North" -> <<NEIGHBORS_A, BORDERS_A>>
           [] direction = "East"  -> <<NEIGHBORS_B, BORDERS_B>>
           [] direction = "South" -> <<NEIGHBORS_C, BORDERS_C>>
           [] direction = "West"  -> <<NEIGHBORS_D, BORDERS_D>>
    ELSE CASE direction = "North" -> <<NEIGHBORS_B, BORDERS_B>>
           [] direction = "East"  -> <<NEIGHBORS_A, BORDERS_A>>
           [] direction = "South" -> <<NEIGHBORS_D, BORDERS_D>>
           [] direction = "West"  -> <<NEIGHBORS_C, BORDERS_C>>

\* the last character replaced, the parent never stepped
get_adjacent_cell_parent_kept(geohash, direction) ==
    IF geohash = <<>> THEN <<>>
    ELSE Append(Front(geohash),
                BASE_32GHS[Position(AdjacentTables(geohash, direction)[1], Last(geohash)) + 1])

RECURSIVE get_adjacent_cell(_, _)
get_adjacent_cell(geohash, direction) ==
    IF geohash = <<>> THEN <<>>
    ELSE
        LET last_char == Last(geohash)
            neighbor == AdjacentTables(geohash, direction)[1]
            border == AdjacentTables(geohash, direction)[2]
            parent_geohash ==
                IF last_char \in Range(border) /\ Front(geohash) # <<>>
                THEN get_adjacent_cell(Front(geohash), direction)
                ELSE Front(geohash)
            index == Position(neighbor, last_char)
        IN  Append(parent_geohash, BASE_32GHS[index + 1])

\* the four cells to the North, East, South and West only
get_surrounding_cells_cardinal(geohash) ==
    << get_adjacent_cell(geohash, "North"), get_adjacent_cell(geohash, "East"),
       get_adjacent_cell(geohash, "South"), get_adjacent_cell(geohash, "West") >>

\* the East neighbour of the North and of the South cell taken twice, the West
\* one never
get_surrounding_cells_east_twice(geohash) ==
    LET Cells(direction) ==
            LET adjacent == get_adjacent_cell(geohash, direction)
            IN  IF direction \in {"North", "South"}
                THEN << get_adjacent_cell(adjacent, "East"),
                        get_adjacent_cell(adjacent, "East"),
                        adjacent >>
                ELSE << adjacent >>
    IN  Cells("North") \o Cells("East") \o Cells("South") \o Cells("West")

get_surrounding_cells(geohash) ==
    LET Cells(direction) ==
            LET adjacent == get_adjacent_cell(geohash, direction)
            IN  IF direction \in {"North", "South"}
                THEN << get_adjacent_cell(adjacent, "East"),
                        get_adjacent_cell(adjacent, "West"),
                        adjacent >>
                ELSE << adjacent >>
    IN  Cells("North") \o Cells("East") \o Cells("South") \o Cells("West")

(***************************************************************************)
(* lib.rs: Waypoint                                                        *)
(***************************************************************************)
Letters ==
    << "A", "B", "C", "D", "E", "F", "G", "H", "I", "J", "K", "L", "M",
       "N", "O", "P", "Q", "R", "S", "T", "U", "V", "W", "X", "Y", "Z" >>

\* the first loop of generate_label: the label length for total_amt items
RECURSIVE LabelLen(_, _)
LabelLen(total_amt, label_len) ==
    IF total_amt > 26 THEN LabelLen(total_amt \div 26, label_len + 1) ELSE label_len

\* the second loop: label_len characters, least significant first
RECURSIVE LabelChars(_, _)
LabelChars(n, label_len) ==
    IF label_len = 0 THEN <<>>
    ELSE <<Letters[(n % 26) + 1]>> \o LabelChars(n \div 26, label_len - 1)

\* generate_label without the final .rev()
generate_label_not_reversed(n, total_amt) == LabelChars(n, LabelLen(total_amt, 1))

generate_label(n, total_amt) == Reverse(LabelChars(n, LabelLen(total_amt, 1)))


(***************************************************************************)
(* The coordinates the model draws from, as (lat, lon) in 2^-19 degrees:   *)
(*   1: ( 5, 1)         geohash s0bsqy0p                                   *)
(*   2: ( 5, 1 + 1/64)  geohash s0bsrn5x, 1.7 km east of 1                 *)
(*   3: ( 1, 10.5)      geohash s0pmwyjc, the far corner of cell s0        *)
(*   4: (12, 1)         geohash s40sqb81, two cell rows north of s0        *)
(***************************************************************************)
Sites ==
    << [lat |-> 5 * Degree,  lon |-> Degree],
       [lat |-> 5 * Degree,  lon |-> Degree + Degree \div 64],
       [lat |-> Degree,      lon |-> 10 * Degree + Degree \div 2],
       [lat |-> 12 * Degree, lon |-> Degree] >>

\* EARTH_RADIUS * c of get_distance_to between the coordinates of Sites, in
\* metres: EARTH_RADIUS = 6378.137 km, a = sin^2(dlat/2) + sin^2(dlon/2) *
\* cos(lat1) * cos(lat2), c = 2 * asin(sqrt(a)).
HaversineMetres ==
    << << 0,       1733,    1145917, 779236  >>,
       << 1733,    0,       1144317, 779238  >>,
       << 1145917, 1144317, 0,       1612428 >>,
       << 779236,  779238,  1612428, 0       >> >>

SiteOf(lat, lon) == CHOOSE s \in 1..Len(Sites) : Sites[s].lat = lat /\ Sites[s].lon = lon

get_distance_to(self, target) ==
    HaversineMetres[SiteOf(self.lat, self.lon)][SiteOf(target.lat, target.lon)]

(***************************************************************************)
(* lib.rs: Trie.  A node is [waypoint_index, children]; children is the    *)
(* HashMap<char, Trie>, a function from the characters that have a child   *)
(* to the child node.                                                      *)
(***************************************************************************)
TrieNew == [waypoint_index |-> None, children |-> <<>>]

\* children.entry(c).or_insert(Trie::new()) along geohash, then the index
RECURSIVE TrieInsert(_, _, _)
TrieInsert(node, geohash, waypoint_index) ==
    IF geohash = <<>> THEN [node EXCEPT !.waypoint_index = Some(waypoint_index)]
    ELSE LET c == Head(geohash)
             child == IF c \in DOMAIN node.children THEN node.children[c] ELSE TrieNew
         IN  [node EXCEPT !.children =
                 [d \in DOMAIN node.children \cup {c} |->
                     IF d = c THEN TrieInsert(child, Tail(geohash), waypoint_index)
                     ELSE node.children[d]]]

\* children.values() is visited in some fixed order; the order Rust's HashMap
\* yields is unspecified.
RECURSIVE collect_waypoints_recursive(_)
RECURSIVE CollectChildren(_, _)
collect_waypoints_recursive(node) ==
    node.waypoint_index \o CollectChildren(node, DOMAIN node.children)

CollectChildren(node, chars) ==
    IF chars = {} THEN <<>>
    ELSE LET c == CHOOSE d \in chars : TRUE
         IN  collect_waypoints_recursive(node.children[c])
             \o CollectChildren(node, chars \ {c})

RECURSIVE get_all_with_prefix(_, _)
get_all_with_prefix(current, prefix) ==
    IF prefix = <<>> THEN collect_waypoints_recursive(current)
    ELSE IF Head(prefix) \in DOMAIN current.children
         THEN get_all_with_prefix(current.children[Head(prefix)], Tail(prefix))
         ELSE <<>>

(***************************************************************************)
(* lib.rs: Dataset.  Waypoint indices are 0-based as in the code:          *)
(* waypoint i of wps is wps[i + 1].                                        *)
(***************************************************************************)
GEOHASH_PRECISION == 8

Indices(wps) == 0..(Len(wps) - 1)

\* a waypoint with latitude and longitude exchanged
Waypoint_swapped(label, lat, lon, geohash) ==
    [label |-> label, lat |-> lon, lon |-> lat, geohash |-> geohash, connections |-> <<>>]

Waypoint(label, lat, lon, geohash) ==
    [label |-> label, lat |-> lat, lon |-> lon, geohash |-> geohash, connections |-> <<>>]

Connection(distance, waypoint_index) ==
    [distance |-> distance, waypoint_index |-> waypoint_index]

\* iter().position(|x| x.label == waypoint.label)
get_waypoint_index(wps, waypoint) ==
    IF \E i \in Indices(wps) : wps[i + 1].label = waypoint.label
    THEN Some(CHOOSE i \in Indices(wps) :
                /\ wps[i + 1].label = waypoint.label
                /\ \A j \in 0..(i - 1) : wps[j + 1].label # waypoint.label)
    ELSE None

search_geohash(trie, geohash) == get_all_with_prefix(trie, geohash)

\* sort_by is a stable sort: insertion after every element that is not greater
RECURSIVE SortByDistance(_)
SortByDistance(conns) ==
    IF conns = <<>> THEN <<>>
    ELSE LET sorted == SortByDistance(Front(conns))
             c == Last(conns)
             before == Cardinality({i \in 1..Len(sorted) : sorted[i].distance <= c.distance})
         IN  SubSeq(sorted, 1, before) \o <<c>> \o SubSeq(sorted, before + 1, Len(sorted))

\* get_knn_naive without the sort_by
get_knn_naive_unsorted(wps, target, k) ==
    Truncate(Concat([i \in 1..Len(wps) |->
                        IF target.label # wps[i].label
                        THEN <<Connection(get_distance_to(target, wps[i]), i - 1)>>
                        ELSE <<>>]), k)

get_knn_naive(wps, target, k) ==
    LET pushed(i) == IF target.label # wps[i + 1].label
                     THEN <<Connection(get_distance_to(target, wps[i + 1]), i)>>
                     ELSE <<>>
        nearest_neighbors == Concat([i \in 1..Len(wps) |-> pushed(i - 1)])
    IN  Truncate(SortByDistance(nearest_neighbors), k)

\* for neighbor_index in found { if visited.insert(neighbor_index) { min_heap.push(..) } }
\* s is [geohash_to_search, min_heap, visited]; min_heap is kept in push order.
RECURSIVE PushUnvisited(_, _, _, _)
PushUnvisited(wps, waypoint, found, s) ==
    IF found = <<>> THEN s
    ELSE LET neighbor_index == Head(found)
         IN  IF neighbor_index \in s.visited
             THEN PushUnvisited(wps, waypoint, Tail(found), s)
             ELSE PushUnvisited(wps, waypoint, Tail(found),
                    [s EXCEPT !.visited = @ \cup {neighbor_index},
                              !.min_heap = Append(@,
                                  Connection(get_distance_to(waypoint, wps[neighbor_index + 1]),
                                             neighbor_index))])

\* one pass of the body of `while min_heap.len() < k`; String::pop on "" is a no-op
RingPass(wps, trie, waypoint, s) ==
    LET shorter == IF s.geohash_to_search = <<>> THEN <<>> ELSE Front(s.geohash_to_search)
    IN  PushUnvisited(wps, waypoint, search_geohash(trie, shorter),
                      [s EXCEPT !.geohash_to_search = shorter])

\* The while loop. A pass that leaves every local unchanged is repeated for
\* ever: the loop then never exits, which is reported as None.
RECURSIVE RingLoop(_, _, _, _, _)
RingLoop(wps, trie, waypoint, k, s) ==
    IF Len(s.min_heap) < k
    THEN LET next == RingPass(wps, trie, waypoint, s)
         IN  IF next = s THEN None ELSE RingLoop(wps, trie, waypoint, k, next)
    ELSE Some(s)

RECURSIVE SurroundingPass(_, _, _, _, _)
SurroundingPass(wps, trie, waypoint, cells, s) ==
    IF cells = <<>> THEN s
    ELSE SurroundingPass(wps, trie, waypoint, Tail(cells),
            PushUnvisited(wps, waypoint, search_geohash(trie, Head(cells)), s))

\* BinaryHeap::into_sorted_vec: ascending by Connection's Ord, which compares
\* the distance alone; the order of connections of equal distance depends on
\* the push order and so on the HashMap's iteration order: any order.
IntoSortedVecs(min_heap) ==
    { [i \in 1..Len(min_heap) |-> min_heap[p[i]]] :
        p \in { q \in [1..Len(min_heap) -> 1..Len(min_heap)] :
                  /\ \A i, j \in 1..Len(min_heap) : i # j => q[i] # q[j]
                  /\ \A i \in 1..(Len(min_heap) - 1) :
                        min_heap[q[i]].distance <= min_heap[q[i + 1]].distance } }

\* The candidates the search has collected when it sorts them, or None.
KnnGeohashHeap(wps, trie, waypoint, k) ==
    LET start == [ geohash_to_search |-> waypoint.geohash,
                   min_heap |-> <<>>,
                   visited |-> {Unwrap(get_waypoint_index(wps, waypoint))} ]
        ring == RingLoop(wps, trie, waypoint, k, start)
    IN  IF ring = None THEN None
        ELSE Some(SurroundingPass(wps, trie, waypoint,
                    get_surrounding_cells(Unwrap(ring).geohash_to_search),
                    Unwrap(ring)).min_heap)

\* The set of vectors get_knn_geohash can return: empty when it never returns.
get_knn_geohash(wps, trie, waypoint, k) ==
    LET heap == KnnGeohashHeap(wps, trie, waypoint, k)
    IN  IF heap = None THEN {}
        ELSE { Truncate(v, k) : v \in IntoSortedVecs(Unwrap(heap)) }


(***************************************************************************)
(* Bounds of the model.                                                    *)
(***************************************************************************)
MaxWaypoints == 3       \* waypoints in a dataset

MaxK == 3               \* the k (amt) of a nearest-neighbour call

MaxConnections == 3     \* connections in one waypoint's list

NoQuery ==
    [op |-> "none", waypoint_index |-> 0, k |-> 0, geohash |-> None, candidates |-> {},
     naive |-> <<>>]

NoLabelCall == [n |-> 0, total_amt |-> 0, label |-> None]

NoRoute ==
    [pc |-> "idle", start |-> 0, goal |-> 0, open_set |-> <<>>, came_from |-> <<>>,
     g_scores |-> <<>>, result |-> None]

\* call where the calls are not recorded, and where none was made yet
NotRecorded == [op |-> "not recorded"]

NoCall == [op |-> "none"]

\* The record of a call: op with its arguments (lat, lon or amt), the
\* waypoints and trie it found, and the index it returned, None when it
\* returns nothing or never returns.
Record(op, args, returned) ==
    IF call = NotRecorded THEN call
    ELSE [op |-> op, args |-> args, returned |-> returned,
          before |-> [waypoints |-> waypoints, geohash_index |-> geohash_index]]

NoCodecCall == [op |-> "none"]

(***************************************************************************)
(* Dataset operations.                                                     *)
(***************************************************************************)
\* Dataset::new
Init ==
    /\ waypoints = <<>>
    /\ geohash_index = TrieNew
    /\ hung = FALSE
    /\ query = NoQuery
    /\ label_call = NoLabelCall
    /\ route = NoRoute
    /\ call = NotRecorded
    /\ codec_call = NoCodecCall

WithinBounds(wps) ==
    /\ Len(wps) <= MaxWaypoints
    /\ \A i \in 1..Len(wps) : Len(wps[i].connections) <= MaxConnections

\* The waypoints generate_waypoints(amt) creates from the coordinates the
\* random number generator yields: coords[i + 1] is the site of waypoint i.
GeneratedWaypoints(amt, coords) ==
    [ j \in 1..amt |->
        LET lat == Sites[coords[j]].lat
            lon == Sites[coords[j]].lon
        IN  Waypoint(generate_label(j - 1, amt), lat, lon,
                     encode(lat, lon, GEOHASH_PRECISION)) ]

\* self.geohash_index.insert(&geohash, i) for i in 0..amt, in order
RECURSIVE InsertGenerated(_, _, _)
InsertGenerated(trie, generated, i) ==
    IF i >= Len(generated) THEN trie
    ELSE InsertGenerated(TrieInsert(trie, generated[i + 1].geohash, i), generated, i + 1)

GenerateWaypoints(amt, coords) ==
    /\ ~hung /\ query.op = "none"
    /\ Len(waypoints) + amt <= MaxWaypoints
    /\ waypoints' = waypoints \o GeneratedWaypoints(amt, coords)
    /\ geohash_index' = InsertGenerated(geohash_index, GeneratedWaypoints(amt, coords), 0)
    /\ query' = NoQuery
    /\ call' = Record("generate_waypoints", [amt |-> amt], None)
    /\ UNCHANGED <<hung, label_call, route, codec_call>>

\* no connection back to the new waypoint
PushReciprocal_none(wps, new_connections, index) == wps

\* connections put in front of the list
Extend_front(wps, i, connections) == [wps EXCEPT ![i + 1].connections = connections \o @]

\* for connection in &new_connections { self.waypoints[connection.waypoint_index]
\*     .connections.push(Connection { waypoint_index: index, .. }) }
RECURSIVE PushReciprocal(_, _, _)
PushReciprocal(wps, new_connections, index) ==
    IF new_connections = <<>> THEN wps
    ELSE LET connection == Head(new_connections)
         IN  PushReciprocal(
                [wps EXCEPT ![connection.waypoint_index + 1].connections =
                    Append(@, Connection(connection.distance, index))],
                Tail(new_connections), index)

Extend(wps, i, connections) == [wps EXCEPT ![i + 1].connections = @ \o connections]

AddNewWaypoint(lat, lon) ==
    LET geohash == encode(lat, lon, GEOHASH_PRECISION)
        index == Len(waypoints)
        waypoint == Waypoint(generate_label(index, index + 1), lat, lon, geohash)
        trie == TrieInsert(geohash_index, geohash, index)
        pushed == Append(waypoints, waypoint)
        k == Len(pushed[1].connections)
        found == get_knn_geohash(pushed, trie, pushed[index + 1], k)
    IN  /\ ~hung /\ query.op = "none"
        /\ Len(waypoints) < MaxWaypoints
        /\ geohash_index' = trie
        /\ IF k > 0
           THEN IF found = {}
                THEN waypoints' = pushed /\ hung' = TRUE
                ELSE /\ \E new_connections \in found :
                          waypoints' = Extend(PushReciprocal(pushed, new_connections, index),
                                              index, new_connections)
                     /\ WithinBounds(waypoints')
                     /\ hung' = hung
           ELSE waypoints' = pushed /\ hung' = hung
        /\ query' = NoQuery
        /\ call' = Record("add_new_waypoint", [lat |-> lat, lon |-> lon],
                          IF hung' THEN None ELSE Some(index))
        /\ UNCHANGED <<label_call, route, codec_call>>

\* for i in 0..self.waypoints.len() { .. }, from index i on: the outcomes of
\* the loop, each the waypoints it leaves and whether a search never returned.
RECURSIVE AssignGeohashFrom(_, _, _, _)
AssignGeohashFrom(wps, trie, amt, i) ==
    IF i >= Len(wps) THEN {[waypoints |-> wps, hung |-> FALSE]}
    ELSE LET returns == get_knn_geohash(wps, trie, wps[i + 1], amt)
         IN  IF returns = {} THEN {[waypoints |-> wps, hung |-> TRUE]}
             ELSE UNION { AssignGeohashFrom(Extend(wps, i, connections), trie, amt, i + 1) :
                            connections \in returns }

AssignAllConnectionsGeohash(amt) ==
    /\ ~hung /\ query.op = "none"
    /\ waypoints # <<>>
    /\ \E outcome \in AssignGeohashFrom(waypoints, geohash_index, amt, 0) :
          /\ waypoints' = outcome.waypoints
          /\ hung' = outcome.hung
    /\ WithinBounds(waypoints')
    /\ query' = NoQuery
    /\ call' = Record("assign_all_connections_geohash", [amt |-> amt], None)
    /\ UNCHANGED <<geohash_index, label_call, route, codec_call>>

RECURSIVE AssignNaiveFrom(_, _, _)
AssignNaiveFrom(wps, amt, i) ==
    IF i >= Len(wps) THEN wps
    ELSE AssignNaiveFrom(Extend(wps, i, get_knn_naive(wps, wps[i + 1], amt)), amt, i + 1)

AssignAllConnectionsNaive(amt) ==
    /\ ~hung /\ query.op = "none"
    /\ waypoints # <<>>
    /\ waypoints' = AssignNaiveFrom(waypoints, amt, 0)
    /\ WithinBounds(waypoints')
    /\ query' = NoQuery
    /\ call' = Record("assign_all_connections_naive", [amt |-> amt], None)
    /\ UNCHANGED <<geohash_index, hung, label_call, route, codec_call>>

\* get_knn_naive(&waypoints[w], k) and get_knn_geohash(&waypoints[w], k) on
\* the dataset as it is; a search that never returns leaves geohash = None.
\* candidates are the waypoint indices get_knn_geohash had in min_heap when
\* it sorted them.
\* The dataset is not changed while the caller holds the returned vectors.
KnnQuery(w, k) ==
    LET returns == get_knn_geohash(waypoints, geohash_index, waypoints[w + 1], k)
        heap == KnnGeohashHeap(waypoints, geohash_index, waypoints[w + 1], k)
    IN  /\ ~hung /\ query.op = "none"
        /\ w \in Indices(waypoints)
        /\ \E geohash \in IF returns = {} THEN {None} ELSE {Some(v) : v \in returns} :
              query' = [op |-> "knn", waypoint_index |-> w, k |-> k, geohash |-> geohash,
                        candidates |-> IF heap = None THEN {}
                                       ELSE {c.waypoint_index : c \in Range(Unwrap(heap))},
                        naive |-> get_knn_naive(waypoints, waypoints[w + 1], k)]
        /\ hung' = (returns = {})
        /\ UNCHANGED <<waypoints, geohash_index, label_call, route, call, codec_call>>

\* The caller is done with the vectors the query returned.
KnnReturn ==
    /\ ~hung /\ query.op = "knn"
    /\ query' = NoQuery
    /\ UNCHANGED <<waypoints, geohash_index, hung, label_call, route, call, codec_call>>

Generate == \E amt \in 1..MaxWaypoints : \E coords \in [1..amt -> 1..Len(Sites)] :
                GenerateWaypoints(amt, coords)

Add == \E s \in 1..Len(Sites) : AddNewWaypoint(Sites[s].lat, Sites[s].lon)

Next ==
    \/ Generate
    \/ Add
    \/ \E amt \in 1..MaxK : AssignAllConnectionsGeohash(amt)
    \/ \E amt \in 1..MaxK : AssignAllConnectionsNaive(amt)

Spec == Init /\ [][Next]_vars

(***************************************************************************)
(* The nearest-neighbour searches on every dataset generate_waypoints and  *)
(* add_new_waypoint build.  Neither search reads a connection list, so     *)
(* this specification leaves connection assignment out.                    *)
(***************************************************************************)
NextKnn ==
    \/ Generate
    \/ Add
    \/ \E w \in 0..(MaxWaypoints - 1) : \E k \in 0..MaxK : KnnQuery(w, k)
    \/ KnnReturn

SpecKnn == Init /\ [][NextKnn]_vars

(***************************************************************************)
(* geohash.rs: calls of encode.  The coordinates are the f32 values of     *)
(* the documented example (37.7749, -122.4194), the f32 values             *)
(* (86.99166870117188, 144.53717041015625), where a midpoint is rounded,   *)
(* a corner of the valid range, and one place beyond each side of it.      *)
(***************************************************************************)
EncodePoints ==
    { [lat |-> 19804926, lon |-> -64183024],
      [lat |-> 45608688, lon |-> 75779104],
      [lat |-> 90 * Degree, lon |-> 180 * Degree],
      [lat |-> 91 * Degree, lon |-> 0],
      [lat |-> -91 * Degree, lon |-> 0],
      [lat |-> 0, lon |-> 181 * Degree],
      [lat |-> 0, lon |-> -181 * Degree] }

\* encode(lat, lon, precision) returns a String: result holds it, and
\* earlier what the call before this one was given and returned.
EncodeCall(lat, lon, precision) ==
    /\ codec_call' =
          [op |-> "encode",
           args |-> [lat |-> lat, lon |-> lon, precision |-> precision],
           result |-> encode(lat, lon, precision),
           earlier |-> IF codec_call.op = "encode"
                       THEN Some([args |-> codec_call.args, result |-> codec_call.result])
                       ELSE None]
    /\ UNCHANGED <<waypoints, geohash_index, hung, query, label_call, route, call>>

NextEncode ==
    \E p \in EncodePoints : \E precision \in 0..GEOHASH_PRECISION :
        EncodeCall(p.lat, p.lon, precision)

SpecEncode == Init /\ [][NextEncode]_vars

(***************************************************************************)
(* geohash.rs: encode pass by pass.  codec_call holds the arguments, the   *)
(* local variables of the loop (s) and those they had before each pass     *)
(* made so far (passes).                                                   *)
(***************************************************************************)
InRangePoints ==
    { [lat |-> 19804926, lon |-> -64183024],
      [lat |-> 45608688, lon |-> 75779104],
      [lat |-> 0, lon |-> 0],
      [lat |-> 90 * Degree, lon |-> 180 * Degree],
      [lat |-> -90 * Degree, lon |-> -180 * Degree] }

InitEncodeLoop ==
    /\ waypoints = <<>>
    /\ geohash_index = TrieNew
    /\ hung = FALSE
    /\ query = NoQuery
    /\ label_call = NoLabelCall
    /\ route = NoRoute
    /\ call = NotRecorded
    /\ \E p \in InRangePoints : \E precision \in 0..GEOHASH_PRECISION :
          codec_call = [op |-> "encode running",
                        args |-> [lat |-> p.lat, lon |-> p.lon, precision |-> precision],
                        s |-> EncodeStart,
                        passes |-> <<>>]

\* one pass of the while loop
EncodePass ==
    /\ codec_call.op = "encode running"
    /\ Len(codec_call.s.geohash) < codec_call.args.precision
    /\ codec_call' =
          [codec_call EXCEPT
              !.s = EncodeStep(codec_call.s, codec_call.args.lat, codec_call.args.lon),
              !.passes = Append(codec_call.passes, codec_call.s)]
    /\ UNCHANGED <<waypoints, geohash_index, hung, query, label_call, route, call>>

\* the loop is left and the geohash returned
EncodeReturn ==
    /\ codec_call.op = "encode running"
    /\ ~(Len(codec_call.s.geohash) < codec_call.args.precision)
    /\ codec_call' = [codec_call EXCEPT !.op = "encode returned"]
    /\ UNCHANGED <<waypoints, geohash_index, hung, query, label_call, route, call>>

NextEncodeLoop == EncodePass \/ EncodeReturn

SpecEncodeLoop == InitEncodeLoop /\ [][NextEncodeLoop]_vars

(***************************************************************************)
(* geohash.rs: get_adjacent_cell and get_surrounding_cells as functions,   *)
(* on every geohash of up to MaxGeohashLen characters and every direction: *)
(* one call of get_surrounding_cells, or one of get_adjacent_cell and then *)
(* one on its result in the opposite direction.                            *)
(***************************************************************************)
MaxGeohashLen == 2

RECURSIVE Geohashes(_)
Geohashes(len) ==
    IF len = 0 THEN {<<>>}
    ELSE {Append(g, c) : g \in Geohashes(len - 1), c \in Range(BASE_32GHS)}

Opposite(direction) ==
    CASE direction = "North" -> "South"
      [] direction = "South" -> "North"
      [] direction = "East"  -> "West"
      [] direction = "West"  -> "East"

InitCell ==
    /\ waypoints = <<>>
    /\ geohash_index = TrieNew
    /\ hung = FALSE
    /\ query = NoQuery
    /\ label_call = NoLabelCall
    /\ route = NoRoute
    /\ call = NotRecorded
    /\ \E len \in 0..MaxGeohashLen : \E geohash \in Geohashes(len) :
       \E direction \in Directions :
          codec_call = [op |-> "pending", geohash |-> geohash, direction |-> direction]

GetAdjacentCell ==
    /\ codec_call.op = "pending"
    /\ codec_call' = [op |-> "get_adjacent_cell", geohash |-> codec_call.geohash,
                      direction |-> codec_call.direction,
                      result |-> get_adjacent_cell(codec_call.geohash, codec_call.direction),
                      back |-> None]
    /\ UNCHANGED <<waypoints, geohash_index, hung, query, label_call, route, call>>

GetAdjacentCellBack ==
    /\ codec_call.op = "get_adjacent_cell" /\ codec_call.back = None
    /\ codec_call' = [codec_call EXCEPT !.back =
            Some(get_adjacent_cell(codec_call.result, Opposite(codec_call.direction)))]
    /\ UNCHANGED <<waypoints, geohash_index, hung, query, label_call, route, call>>

GetSurroundingCells ==
    /\ codec_call.op = "pending"
    /\ codec_call' = [op |-> "get_surrounding_cells", geohash |-> codec_call.geohash,
                      result |-> get_surrounding_cells(codec_call.geohash)]
    /\ UNCHANGED <<waypoints, geohash_index, hung, query, label_call, route, call>>

NextCell == GetAdjacentCell \/ GetAdjacentCellBack \/ GetSurroundingCells

SpecCell == InitCell /\ [][NextCell]_vars

(***************************************************************************)
(* encode and the creation of a waypoint on the same coordinates: a first  *)
(* call of encode, and add_new_waypoint as the first call on a new         *)
(* dataset, in either order.                                               *)
(***************************************************************************)
EncodeFirst(lat, lon, precision) ==
    codec_call = NoCodecCall /\ EncodeCall(lat, lon, precision)

AddFirst(lat, lon) == call = NoCall /\ AddNewWaypoint(lat, lon)

NextCoordinates ==
    \/ \E p \in EncodePoints : \E precision \in 0..GEOHASH_PRECISION :
            EncodeFirst(p.lat, p.lon, precision)
    \/ \E p \in EncodePoints : AddFirst(p.lat, p.lon)


(***************************************************************************)
(* The operations on the dataset, each call recorded in call.              *)
(***************************************************************************)
InitCalls ==
    /\ waypoints = <<>>
    /\ geohash_index = TrieNew
    /\ hung = FALSE
    /\ query = NoQuery
    /\ label_call = NoLabelCall
    /\ route = NoRoute
    /\ call = NoCall
    /\ codec_call = NoCodecCall

SpecCalls == InitCalls /\ [][Next]_vars

SpecCoordinates == InitCalls /\ [][NextCoordinates]_vars

(***************************************************************************)
(* lib.rs: get_shortest_route.  route holds the locals of the call in      *)
(* progress: start and goal are the indices of the waypoints passed in,    *)
(* open_set is the BinaryHeap in push order, came_from and g_scores are    *)
(* the HashMaps as functions on the keys they hold.                        *)
(***************************************************************************)
AStarNode(f_score, waypoint_index) == [f_score |-> f_score, waypoint_index |-> waypoint_index]

Insert(map, key, value) == [x \in DOMAIN map \cup {key} |-> IF x = key THEN value ELSE map[x]]

RemoveAt(seq, i) == SubSeq(seq, 1, i - 1) \o SubSeq(seq, i + 1, Len(seq))

\* BinaryHeap::pop with AStarNode's reversed Ord: a node of the lowest
\* f_score; which one of several of the same f_score is not specified.
PopChoices(open_set) ==
    {i \in 1..Len(open_set) : \A j \in 1..Len(open_set) :
        open_set[i].f_score <= open_set[j].f_score}

\* while let Some(&previous_index) = came_from.get(&current) { path.push(..) }
\* path is built goal first; None when the walk comes back to a waypoint it
\* has passed, and so never ends.
RECURSIVE FollowCameFrom(_, _)
FollowCameFrom(came_from, path) ==
    LET current == Last(path)
    IN  IF current \in DOMAIN came_from
        THEN IF came_from[current] \in Range(path) THEN None
             ELSE FollowCameFrom(came_from, Append(path, came_from[current]))
        ELSE Some(path)

\* the loop taking a path of the same length for a better one
RECURSIVE ExploreNeighbors_not_strict(_, _, _, _)
ExploreNeighbors_not_strict(wps, r, current_index, connections) ==
    IF connections = <<>> THEN r
    ELSE LET neighbor == Head(connections)
             neighbor_index == neighbor.waypoint_index
             g_score == r.g_scores[current_index] + neighbor.distance
             h_score == get_distance_to(wps[neighbor_index + 1], wps[r.goal + 1])
         IN  IF neighbor_index \notin DOMAIN r.g_scores \/ g_score <= r.g_scores[neighbor_index]
             THEN ExploreNeighbors_not_strict(wps,
                    [r EXCEPT !.came_from = Insert(@, neighbor_index, current_index),
                              !.g_scores = Insert(@, neighbor_index, g_score),
                              !.open_set = Append(@, AStarNode(g_score + h_score, neighbor_index))],
                    current_index, Tail(connections))
             ELSE ExploreNeighbors_not_strict(wps, r, current_index, Tail(connections))

\* for neighbor in &current_waypoint.connections { .. } on the locals r
RECURSIVE ExploreNeighbors(_, _, _, _)
ExploreNeighbors(wps, r, current_index, connections) ==
    IF connections = <<>> THEN r
    ELSE LET neighbor == Head(connections)
             neighbor_index == neighbor.waypoint_index
             g_score == r.g_scores[current_index] + neighbor.distance
             h_score == get_distance_to(wps[neighbor_index + 1], wps[r.goal + 1])
         IN  IF neighbor_index \notin DOMAIN r.g_scores \/ g_score < r.g_scores[neighbor_index]
             THEN ExploreNeighbors(wps,
                    [r EXCEPT !.came_from = Insert(@, neighbor_index, current_index),
                              !.g_scores = Insert(@, neighbor_index, g_score),
                              !.open_set = Append(@, AStarNode(g_score + h_score, neighbor_index))],
                    current_index, Tail(connections))
             ELSE ExploreNeighbors(wps, r, current_index, Tail(connections))

\* get_shortest_route(&waypoints[start], &waypoints[goal]) up to its loop
RouteBegin(start, goal) ==
    LET start_index == Unwrap(get_waypoint_index(waypoints, waypoints[start + 1]))
    IN  /\ ~hung /\ route.pc = "idle"
        /\ start \in Indices(waypoints) /\ goal \in Indices(waypoints)
        /\ route' = [pc |-> "search", start |-> start, goal |-> goal,
                     open_set |-> <<AStarNode(0, start_index)>>,
                     came_from |-> <<>>,
                     g_scores |-> Insert(<<>>, start_index, 0),
                     result |-> None]
        /\ UNCHANGED <<waypoints, geohash_index, hung, query, label_call, call, codec_call>>

\* one pass of `while let Some(node) = open_set.pop()`, popping the i-th node
RoutePop(i) ==
    LET current_index == route.open_set[i].waypoint_index
        current_waypoint == waypoints[current_index + 1]
        popped == [route EXCEPT !.open_set = RemoveAt(@, i)]
        path == FollowCameFrom(route.came_from, <<current_index>>)
    IN  /\ route.pc = "search"
        /\ i \in PopChoices(route.open_set)
        /\ IF current_waypoint.label = waypoints[route.goal + 1].label
           THEN IF path = None
                THEN route' = popped /\ hung' = TRUE
                ELSE /\ route' = [popped EXCEPT !.pc = "done",
                                                !.result = Some(Reverse(Unwrap(path)))]
                     /\ hung' = hung
           ELSE /\ route' = ExploreNeighbors(waypoints, popped, current_index,
                                             current_waypoint.connections)
                /\ hung' = hung
        /\ UNCHANGED <<waypoints, geohash_index, query, label_call, call, codec_call>>

\* open_set.pop() is None: the loop ends and the function returns None
RouteNone ==
    /\ route.pc = "search" /\ ~hung
    /\ route.open_set = <<>>
    /\ route' = [route EXCEPT !.pc = "done", !.result = None]
    /\ UNCHANGED <<waypoints, geohash_index, hung, query, label_call, call, codec_call>>

(***************************************************************************)
(* The route search on datasets of up to MaxRouteWaypoints waypoints,      *)
(* waypoint i at Sites[i + 1], as two generate_waypoints calls leave them  *)
(* (the second creating none when split is the number of waypoints), with  *)
(* every choice of connections: between each ordered pair of waypoints no  *)
(* connection, one of the Haversine distance (as the searches create), one *)
(* of twice that distance (a detour) or one of distance 0.                 *)
(***************************************************************************)
MaxRouteWaypoints == 3

ConnectionKinds == {"none", "straight", "detour", "zero"}

RouteConnections(wps, kinds, i) ==
    LET to(j) ==
            LET d == get_distance_to(wps[i + 1], wps[j + 1])
            IN  IF i = j \/ kinds[<<i, j>>] = "none" THEN <<>>
                ELSE IF kinds[<<i, j>>] = "straight" THEN <<Connection(d, j)>>
                ELSE IF kinds[<<i, j>>] = "detour" THEN <<Connection(2 * d, j)>>
                ELSE <<Connection(0, j)>>
    IN  Concat([j \in 1..Len(wps) |-> to(j - 1)])

\* n waypoints as generate_waypoints(split) and then
\* generate_waypoints(n - split) create them
RouteCreated(n, split) ==
    GeneratedWaypoints(split, [i \in 1..split |-> i])
        \o GeneratedWaypoints(n - split, [i \in 1..(n - split) |-> split + i])

RouteDataset(created, kinds) ==
    [i \in 1..Len(created) |->
        [created[i] EXCEPT !.connections = RouteConnections(created, kinds, i - 1)]]

InitRoute ==
    /\ \E n \in 1..MaxRouteWaypoints : \E split \in 1..n :
       \E created \in {RouteCreated(n, split)} :
       \E kinds \in [{p \in (0..(n - 1)) \X (0..(n - 1)) : p[1] # p[2]} -> ConnectionKinds] :
          waypoints = RouteDataset(created, kinds)
    /\ geohash_index = TrieNew
    /\ hung = FALSE
    /\ query = NoQuery
    /\ label_call = NoLabelCall
    /\ route = NoRoute
    /\ call = NotRecorded
    /\ codec_call = NoCodecCall

NextRoute ==
    \/ \E start, goal \in 0..(MaxRouteWaypoints - 1) : RouteBegin(start, goal)
    \/ \E i \in 1..(MaxRouteWaypoints * MaxRouteWaypoints) : RoutePop(i)
    \/ RouteNone

SpecRoute == InitRoute /\ [][NextRoute]_vars

(***************************************************************************)
(* generate_label as a function: every (n, total_amt) with n < total_amt   *)
(* up to MaxCount, and one call of the function on it.                     *)
(***************************************************************************)
MaxCount == 676

InitLabel ==
    /\ waypoints = <<>>
    /\ geohash_index = TrieNew
    /\ hung = FALSE
    /\ query = NoQuery
    /\ route = NoRoute
    /\ call = NotRecorded
    /\ codec_call = NoCodecCall
    /\ \E total_amt \in 1..MaxCount : \E n \in 0..(total_amt - 1) :
          label_call = [n |-> n, total_amt |-> total_amt, label |-> None]

GenerateLabelCall ==
    /\ label_call.label = None
    /\ label_call' = [label_call EXCEPT
                        !.label = Some(generate_label(label_call.n, label_call.total_amt))]
    /\ UNCHANGED <<waypoints, geohash_index, hung, query, route, call, codec_call>>

SpecLabel == InitLabel /\ [][GenerateLabelCall]_vars

(***************************************************************************)
(* Properties of get_shortest_route.                                       *)
(***************************************************************************)
ConnectionsBetween(wps, a, b) ==
    {c \in Range(wps[a + 1].connections) : c.waypoint_index = b}

MinOf(set) == CHOOSE x \in set : \A y \in set : x <= y

\* the length of a shortest directed path from a to b of at most hops
\* connections, None when there is none
RECURSIVE ShortestWithin(_, _, _, _)
ShortestWithin(wps, a, b, hops) ==
    IF hops = 0 THEN (IF a = b THEN Some(0) ELSE None)
    ELSE LET onward == {<<c.distance, ShortestWithin(wps, c.waypoint_index, b, hops - 1)>> :
                            c \in Range(wps[a + 1].connections)}
             lengths == {x[1] + Unwrap(x[2]) : x \in {y \in onward : y[2] # None}}
                        \cup (IF a = b THEN {0} ELSE {})
         IN  IF lengths = {} THEN None ELSE Some(MinOf(lengths))

Shortest(wps, a, b) == ShortestWithin(wps, a, b, Len(wps))

\* path leads from start to goal along stored connections
IsRoute(wps, path, start, goal) ==
    /\ path # <<>>
    /\ path[1] = start /\ Last(path) = goal
    /\ \A i \in 1..(Len(path) - 1) : ConnectionsBetween(wps, path[i], path[i + 1]) # {}

RECURSIVE RouteLength(_, _)
RouteLength(wps, path) ==
    IF Len(path) <= 1 THEN 0
    ELSE MinOf({c.distance : c \in ConnectionsBetween(wps, path[1], path[2])})
         + RouteLength(wps, Tail(path))

\* the heuristic (the Haversine distance to the goal waypoint) never
\* overestimates the length of a shortest path to the goal
Admissible(wps, goal) ==
    \A v \in Indices(wps) :
        Shortest(wps, v, goal) # None
            => get_distance_to(wps[v + 1], wps[goal + 1]) <= Unwrap(Shortest(wps, v, goal))

RouteReturned == route.pc = "done"

\* C1: when the heuristic never overestimates, a returned path is a directed
\* path from start to goal and no directed path from start to goal is shorter.
C1_RouteIsShortest ==
    (RouteReturned /\ route.result # None /\ Admissible(waypoints, route.goal))
        => /\ IsRoute(waypoints, Unwrap(route.result), route.start, route.goal)
           /\ RouteLength(waypoints, Unwrap(route.result))
                = Unwrap(Shortest(waypoints, route.start, route.goal))

\* C2: a returned path begins with the index of start, ends with the index of
\* goal, and each waypoint on it has a stored connection to the next one.
C2_RouteShape ==
    (RouteReturned /\ route.result # None)
        => IsRoute(waypoints, Unwrap(route.result), route.start, route.goal)

\* C3: the search returns, and returns None exactly when no directed path
\* leads from start to goal.
C3_NoneIffUnreachable ==
    /\ ~hung
    /\ RouteReturned
        => (route.result = None <=> Shortest(waypoints, route.start, route.goal) = None)

\* C4: the route from a waypoint to itself is the path of that waypoint's
\* index alone.
C4_RouteToItself ==
    (RouteReturned /\ route.start = route.goal) => route.result = Some(<<route.start>>)

(***************************************************************************)
(* Properties of the labels.                                               *)
(***************************************************************************)
\* the number a label denotes in base 26, most significant letter first
RECURSIVE LabelValue(_)
LabelValue(label) ==
    IF label = <<>> THEN 0
    ELSE 26 * LabelValue(Front(label)) + Position(Letters, Last(label))

\* C9: after any sequence of generate_waypoints and add_new_waypoint calls no
\* two waypoints of the dataset carry the same label.
C9_LabelsUnique ==
    \A i, j \in 1..Len(waypoints) : i # j => waypoints[i].label # waypoints[j].label

Targets(connections) == {c.waypoint_index : c \in Range(connections)}

Ascending(connections) ==
    \A i \in 1..(Len(connections) - 1) :
        connections[i].distance <= connections[i + 1].distance

NoTargetTwice(connections) ==
    \A i, j \in 1..Len(connections) :
        i # j => connections[i].waypoint_index # connections[j].waypoint_index

QueryWaypoint == waypoints[query.waypoint_index + 1]

\* C5: get_knn_geohash terminates for every dataset and every k, also when
\* the search key is shortened to the empty string before k candidates were
\* collected.
C5_KnnGeohashReturns == query.op = "knn" => query.geohash # None

\* C6: whenever get_knn_geohash(w, k) returns, the result has at most k
\* connections, is in ascending order of distance, never targets w's own
\* index and never targets the same index twice.
C6_KnnGeohashResult ==
    (query.op = "knn" /\ query.geohash # None) =>
        LET result == Unwrap(query.geohash)
        IN  /\ Len(result) <= query.k
            /\ Ascending(result)
            /\ query.waypoint_index \notin Targets(result)
            /\ NoTargetTwice(result)

\* C7: get_knn_naive(w, k) on n waypoints returns exactly min(k, n - 1)
\* connections, in ascending order of distance, none of which targets w, and
\* its targets are the waypoints nearest to w.  (Ascending is read as "never
\* descending": two waypoints at the same distance from w cannot be in
\* strictly ascending order.)
C7_KnnNaiveResult ==
    query.op = "knn" =>
        LET result == query.naive
            others == Indices(waypoints) \ {query.waypoint_index}
        IN  /\ Len(result) = Min(query.k, Len(waypoints) - 1)
            /\ Ascending(result)
            /\ query.waypoint_index \notin Targets(result)
            /\ Targets(result) \subseteq others
            /\ \A i \in 1..Len(result) :
                  result[i].distance =
                      get_distance_to(QueryWaypoint, waypoints[result[i].waypoint_index + 1])
            /\ \A i \in 1..Len(result) : \A j \in others \ Targets(result) :
                  result[i].distance <= get_distance_to(QueryWaypoint, waypoints[j + 1])

\* The datasets on which the trie holds every waypoint under its own index:
\* no two waypoints share a label or a geohash, and every geohash leads to
\* the position of its waypoint.
IndexedAsStored ==
    /\ C9_LabelsUnique
    /\ \A i \in Indices(waypoints) :
          get_all_with_prefix(geohash_index, waypoints[i + 1].geohash) = <<i>>

NoTwoAtTheSameDistance ==
    \A i, j \in Indices(waypoints) \ {query.waypoint_index} :
        i # j => get_distance_to(QueryWaypoint, waypoints[i + 1])
                 # get_distance_to(QueryWaypoint, waypoints[j + 1])

NaiveConsidered ==
    {i \in Indices(waypoints) : waypoints[i + 1].label # QueryWaypoint.label}

NoTieAmong(indices) ==
    \A i, j \in indices :
        i # j => get_distance_to(QueryWaypoint, waypoints[i + 1])
                 # get_distance_to(QueryWaypoint, waypoints[j + 1])

Before == call.before.waypoints

Returned(op) == call.op = op /\ ~hung

SameWaypointAs(w, v) ==
    /\ w.lat = v.lat /\ w.lon = v.lon
    /\ w.label = v.label /\ w.geohash = v.geohash

\* the connections back to waypoint index that new_connections give waypoint j
BackTo(new_connections, j, index) ==
    LET to_j == SelectSeq(new_connections, LAMBDA c : c.waypoint_index = j)
    IN  [n \in 1..Len(to_j) |-> Connection(to_j[n].distance, index)]

\* C11: add_new_waypoint returns the length the array had, appends the one
\* waypoint made of its arguments at that index, leaves latitude, longitude,
\* label and geohash of the earlier waypoints as they were, and leaves every
\* connection list as it was when waypoint 0 has no connections.
C11_AddNewWaypointFrame ==
    Returned("add_new_waypoint") =>
        LET index == Unwrap(call.returned)
            new == waypoints[index + 1]
        IN  /\ call.returned # None
            /\ index = Len(Before)
            /\ Len(waypoints) = Len(Before) + 1
            /\ new.lat = call.args.lat /\ new.lon = call.args.lon
            /\ new.geohash = encode(call.args.lat, call.args.lon, GEOHASH_PRECISION)
            /\ \A i \in 1..Len(Before) : SameWaypointAs(waypoints[i], Before[i])
            /\ waypoints[1].connections = <<>> =>
                    \A i \in 1..Len(Before) : waypoints[i].connections = Before[i].connections

C11_Witness ==
    /\ Returned("add_new_waypoint") /\ call.returned = Some(2)
    /\ Before[1].connections = <<>>
    /\ waypoints[3].lat = call.args.lat /\ waypoints[3].lon = call.args.lon
    /\ waypoints[3].label = <<"C">>
    /\ \A i \in 1..3 : waypoints[i].connections = <<>>

C13_BulkAssignment ==
    (Returned("assign_all_connections_geohash") \/ Returned("assign_all_connections_naive")) =>
        /\ Len(waypoints) = Len(Before)
        /\ geohash_index = call.before.geohash_index
        /\ \A i \in 1..Len(Before) :
              /\ SameWaypointAs(waypoints[i], Before[i])
              /\ \E returned \in
                    IF call.op = "assign_all_connections_naive"
                    THEN {get_knn_naive(Before, Before[i], call.args.amt)}
                    ELSE get_knn_geohash(Before, call.before.geohash_index, Before[i],
                                         call.args.amt) :
                    waypoints[i].connections = Before[i].connections \o returned

C13_Witness ==
    /\ Returned("assign_all_connections_geohash") /\ call.args.amt = 1
    /\ Len(waypoints) = 3
    /\ \A i \in 1..3 : Before[i].connections # <<>>
    /\ \A i \in 1..3 : Len(waypoints[i].connections) = Len(Before[i].connections) + 1
    /\ \E i, j \in 1..3 :
          /\ i - 1 \in Targets(waypoints[j].connections)
          /\ j - 1 \notin Targets(waypoints[i].connections)


(***************************************************************************)
(* Properties of encode.                                                   *)
(***************************************************************************)
\* C16: encode(37.7749, -122.4194, 8) returns "9q8yyk8y", and a call returns
\* what the call before it returned whenever the two were given the same
\* latitude, longitude and precision.
C16_EncodeExampleAndPure ==
    codec_call.op = "encode" =>
        /\ codec_call.args = [lat |-> 19804926, lon |-> -64183024,
                              precision |-> GEOHASH_PRECISION]
                => codec_call.result = <<"9", "q", "8", "y", "y", "k", "8", "y">>
        /\ (codec_call.earlier # None /\ Unwrap(codec_call.earlier).args = codec_call.args)
                => codec_call.result = Unwrap(codec_call.earlier).result

C16_Witness ==
    /\ codec_call.op = "encode"
    /\ codec_call.args = [lat |-> 19804926, lon |-> -64183024, precision |-> GEOHASH_PRECISION]
    /\ codec_call.result = <<"9", "q", "8", "y", "y", "k", "8", "y">>
    /\ codec_call.earlier # None
    /\ Unwrap(codec_call.earlier).args = codec_call.args

OutOfRange(lat, lon) ==
    \/ lat < -90 * Degree \/ lat > 90 * Degree
    \/ lon < -180 * Degree \/ lon > 180 * Degree

\* C17: given a latitude outside [-90, 90] or a longitude outside [-180, 180],
\* encode produces no geohash, and add_new_waypoint returns no index, appends
\* no waypoint and inserts nothing into the trie.
C17_InvalidCoordinateRejected ==
    /\ (codec_call.op = "encode" /\ OutOfRange(codec_call.args.lat, codec_call.args.lon))
            => codec_call.result \notin Seq(Range(BASE_32GHS))
    /\ (call.op = "add_new_waypoint" /\ OutOfRange(call.args.lat, call.args.lon))
            => /\ call.returned = None
               /\ waypoints = Before
               /\ geohash_index = call.before.geohash_index


(***************************************************************************)
(* Properties of get_adjacent_cell and get_surrounding_cells.  The         *)
(* reference: a geohash of n characters is 5n bits, the first, third, ..   *)
(* the bits of its column (longitude), the others those of its row         *)
(* (latitude), most significant first; each character holds 5 of them.     *)
(***************************************************************************)
Bit(value, k) == (value \div 2 ^ k) % 2

\* of the 5 bits of a character, the first, third and fifth, and the second
\* and fourth, as numbers
FirstThirdFifth(value) == 4 * Bit(value, 4) + 2 * Bit(value, 2) + Bit(value, 0)

SecondFourth(value) == 2 * Bit(value, 3) + Bit(value, 1)

LonBits(len) == (5 * len + 1) \div 2

LatBits(len) == (5 * len) \div 2

\* a character in an odd place of the geohash begins with a longitude bit,
\* one in an even place with a latitude bit
RECURSIVE Column(_)
Column(geohash) ==
    IF geohash = <<>> THEN 0
    ELSE LET value == Position(BASE_32GHS, Last(geohash))
         IN  IF Len(geohash) % 2 = 1
             THEN 8 * Column(Front(geohash)) + FirstThirdFifth(value)
             ELSE 4 * Column(Front(geohash)) + SecondFourth(value)

RECURSIVE Row(_)
Row(geohash) ==
    IF geohash = <<>> THEN 0
    ELSE LET value == Position(BASE_32GHS, Last(geohash))
         IN  IF Len(geohash) % 2 = 1
             THEN 4 * Row(Front(geohash)) + SecondFourth(value)
             ELSE 8 * Row(Front(geohash)) + FirstThirdFifth(value)

\* the character whose first, third and fifth bits are those of a and whose
\* second and fourth those of b
Interleaved(a, b) ==
    16 * Bit(a, 2) + 8 * Bit(b, 1) + 4 * Bit(a, 1) + 2 * Bit(b, 0) + Bit(a, 0)

RECURSIVE CellAt(_, _, _)
CellAt(column, row, len) ==
    IF len = 0 THEN <<>>
    ELSE IF len % 2 = 1
         THEN Append(CellAt(column \div 8, row \div 4, len - 1),
                     BASE_32GHS[Interleaved(column % 8, row % 4) + 1])
         ELSE Append(CellAt(column \div 4, row \div 8, len - 1),
                     BASE_32GHS[Interleaved(row % 8, column % 4) + 1])

\* the step from geohash leaves the grid at a pole
CrossesPole(geohash, direction) ==
    \/ direction = "North" /\ Row(geohash) = 2 ^ LatBits(Len(geohash)) - 1
    \/ direction = "South" /\ Row(geohash) = 0

CrossesAntimeridian(geohash, direction) ==
    \/ direction = "East" /\ Column(geohash) = 2 ^ LonBits(Len(geohash)) - 1
    \/ direction = "West" /\ Column(geohash) = 0

\* the place one step from geohash, East and West wrapping; North of the
\* last row and South of the first it is outside the grid
ReferenceStep(geohash, direction) ==
    LET columns == 2 ^ LonBits(Len(geohash))
        column == Column(geohash)
        row == Row(geohash)
    IN  CASE direction = "North" -> [column |-> column, row |-> row + 1]
          [] direction = "South" -> [column |-> column, row |-> row - 1]
          [] direction = "East"  -> [column |-> (column + 1) % columns, row |-> row]
          [] direction = "West"  -> [column |-> (column + columns - 1) % columns, row |-> row]

ReferenceAdjacent(geohash, direction) ==
    LET step == ReferenceStep(geohash, direction)
    IN  CellAt(step.column, step.row, Len(geohash))

\* the parent prefix is stepped first exactly when the last character is on
\* the border list of the tables chosen and the parent is not empty
ParentStepped(geohash, direction, result) ==
    Front(result) =
        IF Last(geohash) \in Range(AdjacentTables(geohash, direction)[2])
           /\ Front(geohash) # <<>>
        THEN get_adjacent_cell(Front(geohash), direction)
        ELSE Front(geohash)

SurroundingResult ==
    /\ Len(codec_call.result) = 8
    /\ \A i \in 1..Len(codec_call.result) :
          /\ Len(codec_call.result[i]) = Len(codec_call.geohash)
          /\ codec_call.result[i] # codec_call.geohash

\* C14 as claimed: for every geohash of 0 to 8 characters
\* get_surrounding_cells returns 8 entries, each as long as the geohash and
\* none equal to it.
C14_SurroundingCells ==
    codec_call.op = "get_surrounding_cells" => SurroundingResult

\* C14 as amended: for every geohash of at least one character
\* get_surrounding_cells returns 8 entries, each as long as the geohash and
\* none equal to it; for the empty geohash it returns 8 empty strings.
C14_SurroundingCellsNonEmpty ==
    codec_call.op = "get_surrounding_cells" =>
        IF codec_call.geohash = <<>>
        THEN codec_call.result = [i \in 1..8 |-> <<>>]
        ELSE SurroundingResult

C14_Witness ==
    /\ codec_call.op = "get_surrounding_cells"
    /\ codec_call.geohash = <<"s", "0">>
    /\ Range(codec_call.result) =
          { <<"s", "1">>, <<"s", "2">>, <<"s", "3">>, <<"k", "p">>, <<"k", "r">>,
            <<"7", "z">>, <<"e", "b">>, <<"e", "c">> }


AdjacentCalled == codec_call.op = "get_adjacent_cell" /\ codec_call.geohash # <<>>

\* C15: for a geohash of at least one character and a direction whose step
\* crosses neither a pole nor the antimeridian, the adjacent cell's adjacent
\* cell in the opposite direction is the geohash itself.
C15_AdjacentRoundTrip ==
    ( /\ AdjacentCalled /\ codec_call.back # None
      /\ ~CrossesPole(codec_call.geohash, codec_call.direction)
      /\ ~CrossesAntimeridian(codec_call.geohash, codec_call.direction) )
        => Unwrap(codec_call.back) = codec_call.geohash

C15_Witness ==
    /\ AdjacentCalled
    /\ codec_call.geohash = <<"s", "0">> /\ codec_call.direction = "South"
    /\ codec_call.result = <<"k", "p">>
    /\ codec_call.back = Some(<<"s", "0">>)

\* C20 as claimed: for every geohash of at least one character and every
\* direction, get_adjacent_cell returns the geohash of the same length whose
\* cell is one step away in the grid (East and West wrapping), the parent
\* prefix stepped first exactly when the last character is on the border
\* list and the parent is not empty.
C20_AdjacentIsReference ==
    AdjacentCalled =>
        /\ Len(codec_call.result) = Len(codec_call.geohash)
        /\ Column(codec_call.result)
                = ReferenceStep(codec_call.geohash, codec_call.direction).column
        /\ Row(codec_call.result) = ReferenceStep(codec_call.geohash, codec_call.direction).row
        /\ ParentStepped(codec_call.geohash, codec_call.direction, codec_call.result)

\* C20 as amended: the same for every step that does not cross a pole; North
\* of the last row get_adjacent_cell returns the cell of the same column in
\* the first row, South of the first row the one in the last row.
C20_AdjacentIsReferenceOffPoles ==
    AdjacentCalled =>
        /\ ParentStepped(codec_call.geohash, codec_call.direction, codec_call.result)
        /\ IF CrossesPole(codec_call.geohash, codec_call.direction)
           THEN codec_call.result =
                    CellAt(Column(codec_call.geohash),
                           IF codec_call.direction = "North" THEN 0
                           ELSE 2 ^ LatBits(Len(codec_call.geohash)) - 1,
                           Len(codec_call.geohash))
           ELSE codec_call.result = ReferenceAdjacent(codec_call.geohash, codec_call.direction)

C20_Witness ==
    /\ AdjacentCalled
    /\ codec_call.geohash = <<"s", "0">> /\ codec_call.direction = "West"
    /\ codec_call.result = <<"e", "b">>
    /\ codec_call.result = ReferenceAdjacent(codec_call.geohash, codec_call.direction)
    /\ Column(codec_call.result) = Column(codec_call.geohash) - 1
    /\ Row(codec_call.result) = Row(codec_call.geohash)


(***************************************************************************)
(* Properties of the trie index.                                           *)
(***************************************************************************)
Prefixes(geohash) == {SubSeq(geohash, 1, n) : n \in 0..Len(geohash)}

StoredPrefixes == UNION {Prefixes(waypoints[i].geohash) : i \in 1..Len(waypoints)}

\* C18: after any generate_waypoints and add_new_waypoint calls, for every
\* waypoint i and every prefix p of its geohash, the empty and the full one
\* included, get_all_with_prefix(p) contains i.
C18_IndexComplete ==
    \A i \in Indices(waypoints) : \A p \in Prefixes(waypoints[i + 1].geohash) :
        i \in Range(get_all_with_prefix(geohash_index, p))

\* C19: after any generate_waypoints and add_new_waypoint calls, every index
\* get_all_with_prefix(p) returns is a position of the waypoint array, the
\* waypoint there has a geohash starting with p, and no index is returned
\* twice.
C19_IndexSound ==
    \A p \in StoredPrefixes :
        LET found == get_all_with_prefix(geohash_index, p)
        IN  /\ \A n \in 1..Len(found) :
                  /\ found[n] \in Indices(waypoints)
                  /\ IsPrefix(p, waypoints[found[n] + 1].geohash)
            /\ \A n, m \in 1..Len(found) : n # m => found[n] # found[m]


(***************************************************************************)
(* Properties of encode, pass by pass.                                     *)
(***************************************************************************)
EncodeRan == codec_call.op \in {"encode running", "encode returned"}

\* the running bounds of both axes contain the coordinate
BoundsContain(s, lat, lon) ==
    /\ s.lat_min <= lat /\ lat <= s.lat_max
    /\ s.lon_min <= lon /\ lon <= s.lon_max

\* the local variables after pass n
AfterPass(n) ==
    IF n < Len(codec_call.passes) THEN codec_call.passes[n + 1] ELSE codec_call.s

\* bit n of a geohash, 5 bits per character, most significant first
GeohashBit(geohash, n) ==
    Bit(Position(BASE_32GHS, geohash[((n - 1) \div 5) + 1]), 4 - ((n - 1) % 5))

\* C21: for every latitude and longitude in range and every precision,
\* encode returns exactly precision characters of the geohash alphabet;
\* bit n of them, 5 per character and most significant first, belongs to the
\* longitude when n is odd and to the latitude when n is even, and is 1
\* exactly when the coordinate is strictly greater than the midpoint of the
\* bounds before pass n; after every pass the bounds of both axes contain
\* the coordinate.
C21_EncodeBits ==
    EncodeRan =>
        LET lat == codec_call.args.lat
            lon == codec_call.args.lon
            passes == codec_call.passes
            geohash == codec_call.s.geohash
        IN  /\ \A n \in 1..Len(passes) : BoundsContain(AfterPass(n), lat, lon)
            /\ codec_call.op = "encode returned" =>
                  /\ Len(geohash) = codec_call.args.precision
                  /\ \A i \in 1..Len(geohash) : geohash[i] \in Range(BASE_32GHS)
                  /\ Len(passes) = 5 * Len(geohash)
                  /\ \A n \in 1..Len(passes) :
                        (GeohashBit(geohash, n) = 1) <=>
                            IF n % 2 = 1
                            THEN lon > Midpoint(passes[n].lon_min, passes[n].lon_max)
                            ELSE lat > Midpoint(passes[n].lat_min, passes[n].lat_max)

C21_Witness ==
    /\ codec_call.op = "encode returned"
    /\ codec_call.args = [lat |-> 45608688, lon |-> 75779104, precision |-> 8]
    /\ codec_call.s.geohash = <<"z", "p", "q", "y", "c", "h", "2", "e">>
    /\ Len(codec_call.passes) = 40
    /\ BoundsContain(codec_call.s, codec_call.args.lat, codec_call.args.lon)


(***************************************************************************)
(* Properties of get_surrounding_cells: the eight cells.                   *)
(***************************************************************************)
SurroundingCalled ==
    codec_call.op = "get_surrounding_cells" /\ codec_call.geohash # <<>>

\* the neighbours of geohash on its four sides and the East and the West
\* neighbour of the one to the North and of the one to the South
SidesAndDiagonals(geohash) ==
    {get_adjacent_cell(geohash, direction) : direction \in Directions}
        \cup {get_adjacent_cell(get_adjacent_cell(geohash, side), across) :
                  side \in {"North", "South"}, across \in {"East", "West"}}

\* C22: for every geohash of at least one character, the 8 cells
\* get_surrounding_cells returns are pairwise distinct and are exactly the
\* North, East, South and West neighbours of the geohash and the East and
\* the West neighbour of its North and of its South neighbour.
C22_EightDistinctCells ==
    SurroundingCalled =>
        /\ Len(codec_call.result) = 8
        /\ \A i, j \in 1..Len(codec_call.result) :
              i # j => codec_call.result[i] # codec_call.result[j]
        /\ Range(codec_call.result) = SidesAndDiagonals(codec_call.geohash)
        /\ Cardinality(SidesAndDiagonals(codec_call.geohash)) = 8

C22_Witness ==
    /\ SurroundingCalled
    /\ codec_call.geohash = <<"z">>
    /\ Cardinality(Range(codec_call.result)) = 8
    /\ codec_call.result[3] = get_adjacent_cell(<<"z">>, "North")
    /\ codec_call.result[1] # codec_call.result[2]


(***************************************************************************)
(* Properties of the dataset as a whole.                                   *)
(***************************************************************************)
\* C23: in every dataset reachable by generate_waypoints, the two
\* assign_all_connections calls and add_new_waypoint, a further
\* add_new_waypoint call terminates and returns an index.
C23_AddNewWaypointReturns ==
    call.op = "add_new_waypoint" =>
        /\ ~hung
        /\ call.returned = Some(Len(call.before.waypoints))


\* C24: after any generate_waypoints, assign_all_connections and
\* add_new_waypoint calls, every connection of every waypoint targets an
\* index below the length of the waypoint array and other than the index of
\* the waypoint that holds it.
C24_ConnectionsValid ==
    \A i \in Indices(waypoints) :
        \A n \in 1..Len(waypoints[i + 1].connections) :
            /\ waypoints[i + 1].connections[n].waypoint_index \in Indices(waypoints)
            /\ waypoints[i + 1].connections[n].waypoint_index # i


(***************************************************************************)
(* Properties of get_shortest_route: the predecessor map.                  *)
(***************************************************************************)
\* where following came_from from v ends within so many steps; None when it
\* is still among the recorded waypoints after them
RECURSIVE FirstRecorded(_, _, _)
FirstRecorded(came_from, v, steps) ==
    IF v \notin DOMAIN came_from THEN Some(v)
    ELSE IF steps = 0 THEN None
    ELSE FirstRecorded(came_from, came_from[v], steps - 1)

RouteStartIndex == Unwrap(get_waypoint_index(waypoints, waypoints[route.start + 1]))

NonNegativeDistances ==
    \A i \in 1..Len(waypoints) : \A c \in Range(waypoints[i].connections) : c.distance >= 0

\* start_index has no entry in came_from, following came_from from any
\* recorded waypoint reaches start_index, the walk back from the goal ends
\* and a returned path visits no waypoint twice
CameFromLeadsToStart ==
    (route.pc \in {"search", "done"} /\ NonNegativeDistances) =>
        /\ RouteStartIndex \notin DOMAIN route.came_from
        /\ \A v \in DOMAIN route.came_from :
              FirstRecorded(route.came_from, v, Cardinality(DOMAIN route.came_from))
                  = Some(RouteStartIndex)
        /\ ~hung
        /\ (route.pc = "done" /\ route.result # None) =>
              LET path == Unwrap(route.result)
              IN  /\ \A i, j \in 1..Len(path) : i # j => path[i] # path[j]
                  /\ path[1] = RouteStartIndex

\* a pass of the search loop that does not return records a first or a
\* smaller g_score and raises none, or leaves the g_scores as they are and
\* the open set one node shorter; the g_scores are sums of distances, never
\* below 0, so only finitely many passes can follow one another
PassLowers ==
    (route.pc = "search" /\ route'.pc = "search" /\ NonNegativeDistances) =>
        /\ \A v \in DOMAIN route'.g_scores : route'.g_scores[v] >= 0
        /\ \/ /\ route'.g_scores # route.g_scores
              /\ \A v \in DOMAIN route.g_scores :
                    v \in DOMAIN route'.g_scores /\ route'.g_scores[v] <= route.g_scores[v]
           \/ /\ route'.g_scores = route.g_scores
              /\ Len(route'.open_set) < Len(route.open_set)

\* C25: on a graph of non-negative connection distances, at every step of
\* get_shortest_route start_index has no entry in came_from and following
\* came_from from any recorded waypoint reaches start_index, so the walk back
\* from the goal ends and a returned path visits no waypoint twice; and the
\* search loop ends, every pass lowering what only finitely many can lower.
C25_SearchEndsWithoutCycle ==
    /\ []CameFromLeadsToStart
    /\ [][PassLowers]_vars

C25_Witness ==
    /\ route.pc = "done" /\ route.result = Some(<<0, 1, 2>>)
    /\ route.came_from = (1 :> 0) @@ (2 :> 1)
    /\ \E c \in Range(waypoints[3].connections) : c.waypoint_index = 0 /\ c.distance = 0
    /\ \E c \in Range(waypoints[2].connections) : c.waypoint_index = 0

=============================================================================
